---- MODULE Spec2Model ----
(***************************************************************************)
(* Model of scripts/etl.py: the validation, null-timestamp policy,         *)
(* normalisation, weekly aggregation and top-3 bronze report of the trade  *)
(* ETL, and the order in which run_etl produces its outputs.               *)
(*                                                                         *)
(* Representation.  Text cells (user_id, client_type, symbol, side) are    *)
(* sequences of one-character strings so that lower/upper/strip are        *)
(* computed; timestamp, quantity and price cells are text tokens that the  *)
(* lenient parsers map to values.  Numbers are kept exactly in halves      *)
(* (the parsed value of "1.5" is 3), so products of a price and a quantity *)
(* are in quarters.  A missing value (NaN / NaT / <NA>) of a parsed cell   *)
(* is the empty tuple and a present value v is <<v>>.                      *)
(***************************************************************************)
EXTENDS Integers, Sequences, FiniteSets, TLC

VARIABLES header, raw, include_pnl, null_ts_mode, cols, pc, report, df, agg, error, db,
          top_csv, charts

vars == <<header, raw, include_pnl, null_ts_mode, cols, pc, report, df, agg, error, db,
          top_csv, charts>>

\* the file and the options of one run
inputs == <<header, raw, include_pnl, null_ts_mode>>

(* ------------------------------ bounds --------------------------------- *)
MaxRows == 3

MaxNullRows == 7

MaxColRows == 2

MaxShuffleRows == 3

(* ------------------------- generic sequence helpers -------------------- *)
RECURSIVE SumSeq(_)
SumSeq(s) == IF s = <<>> THEN 0 ELSE s[1] + SumSeq(Tail(s))

RECURSIVE Positions(_, _, _)
\* the positions i (ascending) of s in lo..Len(s) at which the mask is TRUE:
\* boolean-mask selection df.index[mask]
Positions(mask, lo, acc) ==
    IF lo > Len(mask) THEN acc
    ELSE Positions(mask, lo + 1, IF mask[lo] THEN Append(acc, lo) ELSE acc)

Where(mask) == Positions(mask, 1, <<>>)

\* s[:n]
FirstN(s, n) == IF Len(s) <= n THEN s ELSE SubSeq(s, 1, n)

\* df.loc[mask] : the rows at the selected positions, in order
Take(s, idx) == [k \in 1..Len(idx) |-> s[idx[k]]]

(* ------------------------------ text ----------------------------------- *)
UpperChars == <<"A","B","C","D","E","F","G","H","I","J","K","L","M",
                "N","O","P","Q","R","S","T","U","V","W","X","Y","Z">>

LowerChars == <<"a","b","c","d","e","f","g","h","i","j","k","l","m",
                "n","o","p","q","r","s","t","u","v","w","x","y","z">>

Digits == <<"0","1","2","3","4","5","6","7","8","9">>

Whitespace == {" ", "\t"}

\* code-point order of the characters that occur
Alphabet == <<"\t", " ", "-", ".">> \o Digits \o <<"<", ">">> \o UpperChars \o LowerChars

Range(s) == {s[i] : i \in DOMAIN s}

OrdTable == [c \in Range(Alphabet) |-> CHOOSE i \in DOMAIN Alphabet : Alphabet[i] = c]

Ord(c) == IF c \in DOMAIN OrdTable THEN OrdTable[c] ELSE Len(Alphabet) + 1

LowerTable ==
    [c \in Range(UpperChars) |-> LowerChars[CHOOSE i \in DOMAIN UpperChars : UpperChars[i] = c]]

UpperTable ==
    [c \in Range(LowerChars) |-> UpperChars[CHOOSE i \in DOMAIN LowerChars : LowerChars[i] = c]]

LowerChar(c) == IF c \in DOMAIN LowerTable THEN LowerTable[c] ELSE c

UpperChar(c) == IF c \in DOMAIN UpperTable THEN UpperTable[c] ELSE c

\* the missing text cell (NaN in an object column, <NA> in a string column)
NULL == <<"<NA>">>

\* str.lower / str.upper / str.strip of a text value
StrLower(s) == [i \in DOMAIN s |-> LowerChar(s[i])]

StrUpper(s) == [i \in DOMAIN s |-> UpperChar(s[i])]

RECURSIVE LStrip(_)
LStrip(s) == IF s # <<>> /\ s[1] \in Whitespace THEN LStrip(Tail(s)) ELSE s

RECURSIVE RStrip(_)
RStrip(s) == IF s # <<>> /\ s[Len(s)] \in Whitespace
             THEN RStrip(SubSeq(s, 1, Len(s) - 1)) ELSE s

StrStrip(s) == RStrip(LStrip(s))

\* Series.astype(str): a missing cell becomes the text "nan"
AsStr(v) == IF v = NULL THEN <<"n","a","n">> ELSE v

\* Series.astype("string").str.lower() / upper() / strip(): missing stays missing
LowerNA(v) == IF v = NULL THEN NULL ELSE StrLower(v)

UpperNA(v) == IF v = NULL THEN NULL ELSE StrUpper(v)

StripNA(v) == IF v = NULL THEN NULL ELSE StrStrip(v)

RECURSIVE TextLess(_, _)
\* lexicographic order of two text values
TextLess(a, b) ==
    IF b = <<>> THEN FALSE
    ELSE IF a = <<>> THEN TRUE
    ELSE IF a[1] # b[1] THEN Ord(a[1]) < Ord(b[1])
    ELSE TextLess(Tail(a), Tail(b))

\* order of group keys of one column: values ascending, missing last
KeyLess(a, b) == IF a = NULL THEN FALSE ELSE IF b = NULL THEN TRUE ELSE TextLess(a, b)

(* ---------------------- timestamp and number tokens -------------------- *)
\* the missing token cell
NA == "<NA>"

\* the texts the lenient datetime parser understands here, with their fields
TsTable ==
    [t \in {"2023-12-31 23:59", "2024-01-01 00:00", "2024-01-02 09:30",
            "2024-01-03 12:00", "2024-01-04 15:45", "2024-01-05 08:00",
            "2024-01-06 18:20", "2024-01-10 09:00", "2099-01-01 00:00"} |->
       CASE t = "2023-12-31 23:59" -> [y |-> 2023, m |-> 12, d |-> 31, mi |-> 1439]
         [] t = "2024-01-01 00:00" -> [y |-> 2024, m |-> 1,  d |-> 1,  mi |-> 0]
         [] t = "2024-01-02 09:30" -> [y |-> 2024, m |-> 1,  d |-> 2,  mi |-> 570]
         [] t = "2024-01-03 12:00" -> [y |-> 2024, m |-> 1,  d |-> 3,  mi |-> 720]
         [] t = "2024-01-04 15:45" -> [y |-> 2024, m |-> 1,  d |-> 4,  mi |-> 945]
         [] t = "2024-01-05 08:00" -> [y |-> 2024, m |-> 1,  d |-> 5,  mi |-> 480]
         [] t = "2024-01-06 18:20" -> [y |-> 2024, m |-> 1,  d |-> 6,  mi |-> 1100]
         [] t = "2024-01-10 09:00" -> [y |-> 2024, m |-> 1,  d |-> 10, mi |-> 540]
         [] t = "2099-01-01 00:00" -> [y |-> 2099, m |-> 1,  d |-> 1,  mi |-> 0]]

\* days since 1970-01-01 of a civil date
DaysFromCivil(y, m, d) ==
    LET yy  == IF m <= 2 THEN y - 1 ELSE y
        era == yy \div 400
        yoe == yy - era * 400
        mp  == IF m > 2 THEN m - 3 ELSE m + 9
        doy == (153 * mp + 2) \div 5 + d - 1
        doe == yoe * 365 + yoe \div 4 - yoe \div 100 + doy
    IN  era * 146097 + doe - 719468

\* the empty missing value of a parsed cell, and a present one
NaN == <<>>

Val(v) == <<v>>

\* pd.to_datetime(x, errors="coerce"): an instant [day, mi] or NaT
ToDatetime(t) ==
    IF t \in DOMAIN TsTable
    THEN Val([day |-> DaysFromCivil(TsTable[t].y, TsTable[t].m, TsTable[t].d),
              mi  |-> TsTable[t].mi])
    ELSE NaN

\* the texts the lenient number parser understands here, in halves
NumTable ==
    [t \in {"-1", "0", "1.5", "2", "3", "7", "10"} |->
       CASE t = "-1"  -> -2
         [] t = "0"   -> 0
         [] t = "1.5" -> 3
         [] t = "2"   -> 4
         [] t = "3"   -> 6
         [] t = "7"   -> 14
         [] t = "10"  -> 20]

\* pd.to_numeric(x, errors="coerce")
ToNumeric(t) == IF t \in DOMAIN NumTable THEN Val(NumTable[t]) ELSE NaN

\* x % 1 != 0 of a number kept in halves
HasFraction(h) == h % 2 # 0

\* str(x).strip() == "" of a timestamp token
BlankToken(t) == t \in {"", " ", "  ", "\t"}

\* pd.Timestamp.utcnow().tz_localize(None), fixed for one run
Now == [day |-> DaysFromCivil(2026, 11, 4), mi |-> 0]

InstantAfter(a, b) == a.day > b.day \/ (a.day = b.day /\ a.mi > b.mi)

(* ------------------------------ columns -------------------------------- *)
\* req of validate_formats
Req == <<"timestamp", "user_id", "client_type", "symbol", "side", "quantity", "price">>

AllowedSide == {<<"b","u","y">>, <<"s","e","l","l">>}

AllowedClient == {<<"g","o","l","d">>, <<"s","i","l","v","e","r">>, <<"b","r","o","n","z","e">>}

\* the label of the row at position i of the frame read by extract (RangeIndex)
IndexLabel(i) == i - 1

\* the frame with its index: every row carries its label through the filters
Indexed(rows) == [i \in DOMAIN rows |-> rows[i] @@ ("index" :> IndexLabel(i))]

\* df.index[mask] as a list
Labels(rows, idx) == [k \in 1..Len(idx) |-> rows[idx[k]].index]

(* --------------------------- validate_formats -------------------------- *)
RowCategories == {"invalid_timestamp_format", "timestamp_in_future", "invalid_quantity",
                  "invalid_price", "invalid_side", "invalid_client_type"}

\* bad_qty of one cell: qty.isna() | (qty <= 0) | (qty % 1 != 0)
BadQty(t) == LET q == ToNumeric(t) IN q = NaN \/ q[1] <= 0 \/ HasFraction(q[1])

\* bad_price of one cell: price.isna() | (price <= 0)
BadPrice(t) == LET p == ToNumeric(t) IN p = NaN \/ p[1] <= 0

\* bad_side / bad_client of one cell: astype(str).str.strip().str.lower() not in the allowed set
BadSide(v) == StrLower(StrStrip(AsStr(v))) \notin AllowedSide

BadClient(v) == StrLower(StrStrip(AsStr(v))) \notin AllowedClient

\* the boolean mask of each row-level category over the rows of the frame
CategoryMask(rows, c) ==
    [i \in 1..Len(rows) |->
        LET ts == ToDatetime(rows[i].timestamp) IN
        CASE c = "invalid_timestamp_format" -> ts = NaN
          [] c = "timestamp_in_future"      -> ts # NaN /\ InstantAfter(ts[1], Now)
          [] c = "invalid_quantity"         -> BadQty(rows[i].quantity)
          [] c = "invalid_price"            -> BadPrice(rows[i].price)
          [] c = "invalid_side"             -> BadSide(rows[i].side)
          [] c = "invalid_client_type"      -> BadClient(rows[i].client_type)]

\* validate_formats(df): category -> labels of the offending rows; only
\* missing_columns (the missing names, in req order) when a column is absent
ValidateFormats(cs, rows) ==
    LET miss == SelectSeq(Req, LAMBDA c : c \notin cs) IN
    IF miss # <<>>
    THEN [c \in {"missing_columns"} |-> miss]
    ELSE LET hit(c) == Where(CategoryMask(rows, c))
         IN  [c \in {k \in RowCategories : hit(k) # <<>>} |-> Labels(rows, hit(c))]

(* ------------------------------- errors -------------------------------- *)
NoError == [type |-> "", what |-> "", rows |-> <<>>, name |-> ""]

ValueErrorNoTimestamp ==
    [type |-> "ValueError", what |-> "column_not_found", rows |-> <<>>, name |-> "timestamp"]

ValueErrorNullTimestamps(idx) ==
    [type |-> "ValueError", what |-> "null_timestamps", rows |-> idx, name |-> ""]

ValueErrorUnknownMode(mode) ==
    [type |-> "ValueError", what |-> "unknown_mode", rows |-> <<>>, name |-> mode]

KeyError(c) == [type |-> "KeyError", what |-> "missing_column", rows |-> <<>>, name |-> c]

\* read_csv: a column named by parse_dates is not in the file
ValueErrorParseDates(c) ==
    [type |-> "ValueError", what |-> "missing_parse_dates", rows |-> <<>>, name |-> c]

(* ------------------------ handle_null_timestamps ----------------------- *)
\* variant: only isna(), the blank strings are not looked for
EmptiesIsNaOnly(rows) == [i \in 1..Len(rows) |-> rows[i].timestamp = NA]

\* empties: df["timestamp"].isna() | (df["timestamp"].astype(str).str.strip() == "")
Empties(rows) ==
    [i \in 1..Len(rows) |-> rows[i].timestamp = NA \/ BlankToken(rows[i].timestamp)]

\* the number of positions listed by the error message
NullSample == 5

\* handle_null_timestamps(df, mode): the frame returned, or the error raised
HandleNullTimestamps(cs, rows, mode) ==
    IF "timestamp" \notin cs
    THEN [ok |-> FALSE, df |-> <<>>, error |-> ValueErrorNoTimestamp]
    ELSE LET empties == Empties(rows) IN
         IF \E i \in DOMAIN empties : empties[i]
         THEN IF mode = "error"
              THEN [ok |-> FALSE, df |-> <<>>,
                    error |-> ValueErrorNullTimestamps(FirstN(Labels(rows, Where(empties)), NullSample))]
              ELSE IF mode = "drop"
              THEN [ok |-> TRUE,
                    df |-> Take(rows, Where([i \in DOMAIN empties |-> ~empties[i]])),
                    error |-> NoError]
              ELSE [ok |-> FALSE, df |-> <<>>, error |-> ValueErrorUnknownMode(mode)]
         ELSE [ok |-> TRUE, df |-> rows, error |-> NoError]

(* ------------------------- to_week_start_monday ------------------------ *)
\* day of the week of a day number, Monday = 0
Weekday(day) == (day + 3) % 7

\* the weekday on which a period of frequency 'W-MON' ends (Monday = 0)
WeekEndDay == 0

\* s.dt.to_period('W-MON').dt.start_time : first day of the weekly period
\* that contains the day, time of day truncated
ToWeekStartMonday(day) == day - ((Weekday(day) - WeekEndDay - 1) % 7)

(* ------------------------------ transform ------------------------------ *)
\* lines 91-97: parse the timestamp and the numbers, normalise the text cells
Normalize(r) ==
    [index       |-> r.index,
     timestamp   |-> ToDatetime(r.timestamp),
     user_id     |-> r.user_id,
     client_type |-> StripNA(LowerNA(r.client_type)),
     symbol      |-> StripNA(UpperNA(r.symbol)),
     side        |-> StripNA(LowerNA(r.side)),
     quantity    |-> ToNumeric(r.quantity),
     price       |-> ToNumeric(r.price)]

\* line 100: dropna(subset=["timestamp","quantity","price"]) keeps the row
NotNa(n) == n.timestamp # NaN /\ n.quantity # NaN /\ n.price # NaN

\* line 103: client_type.isin({"gold","silver","bronze"})
ClientAllowed(n) == n.client_type \in AllowedClient

\* line 111: price * quantity * (1 if side == "sell" else -1)
Cashflow(price, quantity, side) ==
    price * quantity * (IF side = <<"s","e","l","l">> THEN 1 ELSE -1)

\* lines 100-113: a row that passed both filters, with its week and cash flow
Enrich(n, pnl) ==
    LET base == [index           |-> n.index,
                 timestamp       |-> n.timestamp[1],
                 user_id         |-> n.user_id,
                 client_type     |-> n.client_type,
                 symbol          |-> n.symbol,
                 side            |-> n.side,
                 quantity        |-> n.quantity[1],
                 price           |-> n.price[1],
                 week_start_date |-> ToWeekStartMonday(n.timestamp[1].day)]
    IN  IF pnl
        THEN base @@ ("cashflow" :> Cashflow(n.price[1], n.quantity[1], n.side))
        ELSE base

\* keeps[i]: the row at position i of the frame survives lines 100 and 103
KeepMask(rows) ==
    [i \in 1..Len(rows) |-> LET n == Normalize(rows[i]) IN NotNa(n) /\ ClientAllowed(n)]

\* the frame df of transform at line 114
KeptRows(rows, pnl) ==
    LET idx == Where(KeepMask(rows))
    IN  [k \in 1..Len(idx) |-> Enrich(Normalize(rows[idx[k]]), pnl)]

(* ------------------------------- groupby ------------------------------- *)
\* group_cols
GroupKey(r) == <<r.week_start_date, r.client_type, r.user_id, r.symbol>>

\* a key with a missing user_id or symbol
HasNaKey(k) == k[3] = NULL \/ k[4] = NULL

\* sorted order of two group keys (sort=True): column by column, NaN last
GroupKeyLess(a, b) ==
    IF a[1] # b[1] THEN a[1] < b[1]
    ELSE IF a[2] # b[2] THEN KeyLess(a[2], b[2])
    ELSE IF a[3] # b[3] THEN KeyLess(a[3], b[3])
    ELSE KeyLess(a[4], b[4])

\* a set of group keys in sorted order: the key at position i has exactly
\* i - 1 smaller ones
SortKeys(S) ==
    [i \in 1..Cardinality(S) |->
        CHOOSE x \in S : Cardinality({y \in S : GroupKeyLess(y, x)}) = i - 1]

\* the group keys of groupby(group_cols, dropna=dropna), in result order
GroupKeys(rows, dropna) ==
    SortKeys({k \in {GroupKey(rows[i]) : i \in DOMAIN rows} : ~(dropna /\ HasNaKey(k))})

\* the rows of one group, in frame order
GroupRows(rows, k) == SelectSeq(rows, LAMBDA r : GroupKey(r) = k)

\* one column of a frame
Quantities(rows) == [i \in DOMAIN rows |-> rows[i].quantity]

Prices(rows) == [i \in DOMAIN rows |-> rows[i].price]

Cashflows(rows) == [i \in DOMAIN rows |-> rows[i].cashflow]

\* variant: "first" instead of "mean"
First(s) == [num |-> s[1], den |-> 1]

\* "mean": the exact quotient sum / count, kept as a fraction
Mean(s) == [num |-> SumSeq(s), den |-> Len(s)]

\* lines 117-124: one aggregate row: quantity sum, size, price mean
AggRow(k, g) ==
    [week_start_date |-> k[1], client_type |-> k[2], user_id |-> k[3], symbol |-> k[4],
     total_volume |-> SumSeq(Quantities(g)),
     trade_count  |-> Len(g),
     price        |-> Mean(Prices(g))]

AggKey(a) == <<a.week_start_date, a.client_type, a.user_id, a.symbol>>

\* variant: groupby with its default dropna=True
AggregateDropNa(rows) ==
    LET ks == GroupKeys(rows, TRUE)
    IN  [j \in 1..Len(ks) |-> AggRow(ks[j], GroupRows(rows, ks[j]))]

\* line 122: df.groupby(group_cols, dropna=False).agg(agg_dict)
Aggregate(rows) ==
    LET ks == GroupKeys(rows, FALSE)
    IN  [j \in 1..Len(ks) |-> AggRow(ks[j], GroupRows(rows, ks[j]))]

\* line 127: df.groupby(group_cols)["cashflow"].sum() : key -> total_pnl
PnlKeys(rows) == GroupKeys(rows, TRUE)

PnlOf(rows, k) == SumSeq(Cashflows(GroupRows(rows, k)))

\* line 128: agg.merge(pnl, on=group_cols, how="left")
MergePnl(a, rows) ==
    LET ks == PnlKeys(rows)
    IN  [j \in DOMAIN a |->
           a[j] @@ ("total_pnl" :> IF AggKey(a[j]) \in Range(ks)
                                   THEN Val(PnlOf(rows, AggKey(a[j])))
                                   ELSE NaN)]

\* a table: its columns and its rows (an empty table still has columns)
Frame(columns, rows) == [columns |-> columns, rows |-> rows]

NoFrame == Frame({}, <<>>)

\* the columns of the aggregate after rename and reset_index
AggColumns == {"week_start_date", "client_type", "user_id", "symbol",
               "total_volume", "trade_count", "price"}

\* the column whose absence stops transform after handle_null_timestamps:
\* lines 92, 93, 94, 96, 97 read a column each, line 122 groups by user_id
ColumnReads == <<"client_type", "symbol", "side", "quantity", "price", "user_id">>

\* variant: a missing column is swallowed and an empty aggregate returned
TransformSwallowsKeyError(cs, rows, pnl, mode) ==
    LET h    == HandleNullTimestamps(cs, Indexed(rows), mode)
        miss == SelectSeq(ColumnReads, LAMBDA c : c \notin cs)
    IN  IF ~h.ok
        THEN [ok |-> FALSE, df |-> <<>>, agg |-> NoFrame, error |-> h.error]
        ELSE IF miss # <<>>
        THEN [ok |-> TRUE, df |-> <<>>,
              agg |-> Frame(IF pnl THEN AggColumns \cup {"total_pnl"} ELSE AggColumns, <<>>),
              error |-> NoError]
        ELSE LET kept == KeptRows(h.df, pnl)
                 a    == Aggregate(kept)
             IN  [ok |-> TRUE, df |-> kept,
                  agg |-> IF pnl
                          THEN Frame(AggColumns \cup {"total_pnl"}, MergePnl(a, kept))
                          ELSE Frame(AggColumns, a),
                  error |-> NoError]

\* transform(df, include_pnl, null_ts_mode): the aggregate returned or the
\* error raised, with the frame at line 114
Transform(cs, rows, pnl, mode) ==
    LET h    == HandleNullTimestamps(cs, Indexed(rows), mode)
        miss == SelectSeq(ColumnReads, LAMBDA c : c \notin cs)
    IN  IF ~h.ok
        THEN [ok |-> FALSE, df |-> <<>>, agg |-> NoFrame, error |-> h.error]
        ELSE IF miss # <<>>
        THEN [ok |-> FALSE, df |-> <<>>, agg |-> NoFrame, error |-> KeyError(miss[1])]
        ELSE LET kept == KeptRows(h.df, pnl)
                 a    == Aggregate(kept)
             IN  [ok |-> TRUE, df |-> kept,
                  agg |-> IF pnl
                          THEN Frame(AggColumns \cup {"total_pnl"}, MergePnl(a, kept))
                          ELSE Frame(AggColumns, a),
                  error |-> NoError]

(* ----------------------- export_top_bronze_exact ----------------------- *)
\* .head(3)
TopN == 3

\* line 139: agg_df[agg_df["client_type"] == "bronze"]
Bronze(a) == SelectSeq(a, LAMBDA r : r.client_type = <<"b","r","o","n","z","e">>)

\* the keys of bronze.groupby("user_id"): sorted, a missing user_id dropped
UserKeys(b) ==
    LET S == {b[j].user_id : j \in DOMAIN b} \ {NULL}
    IN  [i \in 1..Cardinality(S) |->
            CHOOSE x \in S : Cardinality({y \in S : KeyLess(y, x)}) = i - 1]

\* the total_volume column, and the total_pnl column as a sum reads it: a
\* missing value is skipped
TotalVolumes(rows) == [i \in DOMAIN rows |-> rows[i].total_volume]

TotalPnls(rows) ==
    [i \in DOMAIN rows |-> IF rows[i].total_pnl = NaN THEN 0 ELSE rows[i].total_pnl[1]]

\* lines 142-144: one row per user: total_volume and total_pnl summed
ByUser(b) ==
    LET us == UserKeys(b)
    IN  [j \in 1..Len(us) |->
           LET g == SelectSeq(b, LAMBDA r : r.user_id = us[j])
           IN  [user_id      |-> us[j],
                total_volume |-> SumSeq(TotalVolumes(g)),
                total_pnl    |-> SumSeq(TotalPnls(g))]]

Perms(n) == {p \in [1..n -> 1..n] : \A i, j \in 1..n : p[i] = p[j] => i = j}

Permute(s, p) == [i \in DOMAIN s |-> s[p[i]]]

\* line 145: sort_values("total_volume", ascending=False) with the default
\* kind="quicksort", which is not stable: every descending arrangement
SortedDescending(s) ==
    {t \in {Permute(s, p) : p \in Perms(Len(s))} :
        \A i \in 1..(Len(t) - 1) : t[i].total_volume >= t[i + 1].total_volume}

\* lines 141-147 on an aggregate that has total_pnl: the tables the report
\* may hold
TopClients(a) == {FirstN(t, TopN) : t \in SortedDescending(ByUser(Bronze(a.rows)))}

(* ------------------------------- charts -------------------------------- *)
\* plot_weekly_volume: one line per client_type of weekly summed total_volume
WeeklySeries(a) ==
    {<<r.client_type, r.week_start_date,
       SumSeq(TotalVolumes(SelectSeq(a.rows, LAMBDA x : x.client_type = r.client_type
                                              /\ x.week_start_date = r.week_start_date)))>> :
           r \in Range(a.rows)}

\* plot_symbols_total_volume: one bar per symbol (groupby drops a missing one)
SymbolBars(a) ==
    {<<r.symbol, SumSeq(TotalVolumes(SelectSeq(a.rows, LAMBDA x : x.symbol = r.symbol)))>> :
        r \in {x \in Range(a.rows) : x.symbol # NULL}}

(* ------------------------------- extract ------------------------------- *)
ReqSet == Range(Req)

\* the required column names as text
ReqText ==
    [c \in ReqSet |->
       CASE c = "timestamp"   -> <<"t","i","m","e","s","t","a","m","p">>
         [] c = "user_id"     -> <<"u","s","e","r","_","i","d">>
         [] c = "client_type" -> <<"c","l","i","e","n","t","_","t","y","p","e">>
         [] c = "symbol"      -> <<"s","y","m","b","o","l">>
         [] c = "side"        -> <<"s","i","d","e">>
         [] c = "quantity"    -> <<"q","u","a","n","t","i","t","y">>
         [] c = "price"       -> <<"p","r","i","c","e">>]

\* line 80: c.strip().lower() of a header cell, as a column name
ColumnName(h) ==
    LET t == StrLower(StrStrip(h))
    IN  IF \E c \in ReqSet : ReqText[c] = t THEN CHOOSE c \in ReqSet : ReqText[c] = t
        ELSE "other"

ColumnNames(hs) == {ColumnName(h) : h \in hs}

\* extract(path): read_csv(..., parse_dates=['timestamp']) needs the header
\* cell "timestamp" as written; then the column names are normalised
Extract(hs) ==
    IF ReqText["timestamp"] \notin hs
    THEN [ok |-> FALSE, cols |-> {}, error |-> ValueErrorParseDates("timestamp")]
    ELSE [ok |-> TRUE, cols |-> ColumnNames(hs), error |-> NoError]

(* ------------------------------- inputs -------------------------------- *)
\* the header cells of a file with the columns cs, exact or as a person types
\* them
Spelled(c, exact) ==
    IF exact THEN ReqText[c]
    ELSE CASE c = "side"  -> <<"S","i","d","e">>
           [] c = "price" -> <<" ","P","r","i","c","e"," ">>
           [] OTHER       -> ReqText[c]

Header(cs, exact) == {Spelled(c, exact) : c \in cs}

Bronze_ == <<"b","r","o","n","z","e">>

BaseRow ==
    [timestamp |-> "2024-01-03 12:00", user_id |-> <<"u","1">>, client_type |-> Bronze_,
     symbol |-> <<"a","a","p","l">>, side |-> <<"b","u","y">>, quantity |-> "2", price |-> "10"]

\* cells a raw trade may hold, column by column
Cells ==
    [timestamp   : DOMAIN TsTable \cup {"", " ", NA, "not-a-date"},
     user_id     : {<<"u","1">>, <<"u","2">>, NULL},
     client_type : {Bronze_, <<" ","G","o","l","d">>, <<"v","i","p">>, NULL},
     symbol      : {<<"a","a","p","l">>, <<" ","m","s","f","t">>, NULL},
     side        : {<<"b","u","y">>, <<"s","e","l","l">>, <<"S","E","L","L"," ">>,
                    <<"h","o","l","d">>},
     quantity    : {"2", "3", "0", "-1", "1.5", "abc", NA},
     price       : {"10", "7", "0", "abc", NA}]

Differs(r) == Cardinality({c \in ReqSet : r[c] # BaseRow[c]})

\* rows that differ from the base row in at most one cell, in at most two
OneOff == {r \in Cells : Differs(r) <= 1}

TwoOff == {r \in Cells : Differs(r) <= 2}

\* rows that fall into the same or into different groups, kept or dropped
CoreRows ==
    {BaseRow,
     [BaseRow EXCEPT !.side = <<"s","e","l","l">>, !.price = "7"],
     [BaseRow EXCEPT !.user_id = NULL, !.quantity = "3"],
     [BaseRow EXCEPT !.timestamp = "2024-01-10 09:00", !.symbol = <<" ","m","s","f","t">>],
     [BaseRow EXCEPT !.timestamp = "", !.client_type = <<" ","G","o","l","d">>]}

\* rows that transform keeps or removes, one for each reason
DefectRows ==
    {[BaseRow EXCEPT !.user_id = NULL],
     [BaseRow EXCEPT !.timestamp = " "],
     [BaseRow EXCEPT !.timestamp = "not-a-date"],
     [BaseRow EXCEPT !.quantity = "abc", !.side = <<"h","o","l","d">>],
     [BaseRow EXCEPT !.price = NA],
     [BaseRow EXCEPT !.client_type = <<"v","i","p">>, !.quantity = "0"]}

\* rows of the null-timestamp policy: present, empty, missing
NullRows == {[BaseRow EXCEPT !.timestamp = t] : t \in {"2024-01-03 12:00", "", NA}}

UserNames == <<<<"u","1">>, <<"u","2">>, <<"u","3">>, <<"u","4">>>>

\* one more bronze user than the report keeps, in any order, each with one trade
TopBatches ==
    {[i \in 1..(TopN + 1) |-> [BaseRow EXCEPT !.user_id = UserNames[p[i]], !.quantity = q[i]]] :
        p \in Perms(TopN + 1), q \in [1..(TopN + 1) -> {"2", "3"}]}

SeqsUpTo(S, n) == UNION {[1..k -> S] : k \in 0..n}

\* a frame that lacks columns has no cell for them
Project(rows, cs) == [i \in DOMAIN rows |-> [c \in cs |-> rows[i][c]]]

Modes == {"error", "drop", "fill"}

InitRun ==
    /\ include_pnl \in BOOLEAN
    /\ null_ts_mode \in Modes
    /\ pc = "extract"
    /\ cols = {}
    /\ report = << >>
    /\ df = << >>
    /\ agg = NoFrame
    /\ error = NoError @@ ("at" :> "")
    /\ db = << >>
    /\ top_csv = << >>
    /\ charts = << >>

\* files with all columns and rows of every kind
Init ==
    /\ header = Header(ReqSet, TRUE)
    /\ raw \in SeqsUpTo(DefectRows, MaxRows) \cup [1..2 -> OneOff]
               \cup [1..1 -> TwoOff] \cup TopBatches
    /\ InitRun

\* batches of the null-timestamp policy
InitNull ==
    /\ header = Header(ReqSet, TRUE)
    /\ raw \in SeqsUpTo(NullRows, MaxNullRows)
    /\ InitRun

\* files with any set of the required columns
InitCols ==
    /\ \E cs \in SUBSET ReqSet :
          /\ header \in {Header(cs, TRUE), Header(cs, FALSE)}
          /\ \E rows \in SeqsUpTo(NullRows, MaxColRows) : raw = Project(rows, cs)
    /\ InitRun

\* batches whose rows share groups
InitShuffle ==
    /\ header = Header(ReqSet, TRUE)
    /\ raw \in SeqsUpTo(CoreRows, MaxShuffleRows)
    /\ InitRun

(* ------------------------------- run_etl ------------------------------- *)
Raised(e, at) == e @@ ("at" :> at)

\* line 224: raw = extract(data_path)
DoExtract ==
    /\ pc = "extract"
    /\ LET r == Extract(header) IN
       /\ cols' = r.cols
       /\ error' = IF r.ok THEN error ELSE Raised(r.error, "extract")
       /\ pc' = IF r.ok THEN "transform" ELSE "failed"
    /\ UNCHANGED <<inputs, report, df, agg, db, top_csv, charts>>

\* line 225: agg = transform(raw, include_pnl, null_ts_mode)
DoTransform ==
    /\ pc = "transform"
    /\ LET r == Transform(cols, raw, include_pnl, null_ts_mode) IN
       /\ report' = ValidateFormats(cols, Indexed(raw))
       /\ df' = r.df
       /\ agg' = r.agg
       /\ error' = IF r.ok THEN error ELSE Raised(r.error, "transform")
       /\ pc' = IF r.ok THEN "load" ELSE "failed"
    /\ UNCHANGED <<inputs, cols, db, top_csv, charts>>

\* line 226: load(agg, db_path, table), if_exists="replace"
Load ==
    /\ pc = "load"
    /\ db' = <<agg>>
    /\ pc' = "export"
    /\ UNCHANGED <<inputs, cols, report, df, agg, error, top_csv, charts>>

\* line 228: export_top_bronze_exact(agg)
ExportTopBronzeExact ==
    /\ pc = "export"
    /\ IF "total_pnl" \notin agg.columns
       THEN /\ error' = Raised(KeyError("total_pnl"), "export_top_bronze_exact")
            /\ pc' = "failed"
            /\ UNCHANGED top_csv
       ELSE /\ \E t \in TopClients(agg) : top_csv' = <<t>>
            /\ pc' = "plot_weekly"
            /\ UNCHANGED error
    /\ UNCHANGED <<inputs, cols, report, df, agg, db, charts>>

\* line 230: plot_weekly_volume(agg)
PlotWeeklyVolume ==
    /\ pc = "plot_weekly"
    /\ charts' = IF agg.rows = <<>> THEN charts
                 ELSE Append(charts, [name |-> "weekly_volume", data |-> WeeklySeries(agg)])
    /\ pc' = "plot_symbols"
    /\ UNCHANGED <<inputs, cols, report, df, agg, error, db, top_csv>>

\* line 231: plot_symbols_total_volume(agg)
PlotSymbolsTotalVolume ==
    /\ pc = "plot_symbols"
    /\ charts' = IF agg.rows = <<>> \/ SymbolBars(agg) = {} THEN charts
                 ELSE Append(charts, [name |-> "symbols_total_volume", data |-> SymbolBars(agg)])
    /\ pc' = "done"
    /\ UNCHANGED <<inputs, cols, report, df, agg, error, db, top_csv>>

Next ==
    \/ DoExtract
    \/ DoTransform
    \/ Load
    \/ ExportTopBronzeExact
    \/ PlotWeeklyVolume
    \/ PlotSymbolsTotalVolume

Spec == Init /\ [][Next]_vars

SpecNull == InitNull /\ [][Next]_vars

SpecCols == InitCols /\ [][Next]_vars

SpecShuffle == InitShuffle /\ [][Next]_vars

TypeOK == pc \in {"extract", "transform", "load", "export", "plot_weekly", "plot_symbols", "done", "failed"}

(* ------------------------------ properties ----------------------------- *)
\* transform has returned an aggregate to run_etl
TransformReturned ==
    \/ pc \notin {"extract", "transform", "failed"}
    \/ pc = "failed" /\ error.at \notin {"extract", "transform"}

\* transform has been called and has returned or raised
TransformDone == TransformReturned \/ (pc = "failed" /\ error.at = "transform")

\* the columns of the file
FileColumns == ColumnNames(header)

FailedInTransform == pc = "failed" /\ error.at = "transform"

NoOutput == db = << >> /\ top_csv = << >> /\ charts = << >>

\* a null or blank-after-trim timestamp cell
BlankTimestamp(r) == r.timestamp = NA \/ BlankToken(r.timestamp)

BlankLabels == {IndexLabel(i) : i \in {j \in DOMAIN raw : BlankTimestamp(raw[j])}}

\* C1: every row kept by transform has a week_start_date that is a Monday, is
\* not after the row's date and is less than seven days before it.
C1_WeekStartIsMonday ==
    TransformReturned =>
        \A k \in DOMAIN df :
            /\ Weekday(df[k].week_start_date) = 0
            /\ df[k].week_start_date <= df[k].timestamp.day
            /\ df[k].timestamp.day < df[k].week_start_date + 7

\* the signed cash flow of the kept rows of one group, summed
GroupPnl(k) ==
    SumSeq([i \in DOMAIN df |->
              IF GroupKey(df[i]) = k
              THEN df[i].price * df[i].quantity
                   * (IF df[i].side = <<"s","e","l","l">> THEN 1 ELSE -1)
              ELSE 0])

\* C2: with include_pnl, every aggregate row (also one whose user_id or symbol
\* is missing) has a total_pnl, equal to the sum over its group of
\* price * quantity * (+1 for "sell", -1 otherwise).
C2_TotalPnlIsSignedSum ==
    (TransformReturned /\ include_pnl) =>
        \A j \in DOMAIN agg.rows :
            /\ agg.rows[j].total_pnl # NaN
            /\ agg.rows[j].total_pnl = Val(GroupPnl(AggKey(agg.rows[j])))

RECURSIVE FirstSeen(_, _)
\* the distinct values of a sequence in the order of their first occurrence
FirstSeen(s, acc) ==
    IF s = <<>> THEN acc
    ELSE FirstSeen(Tail(s), IF s[1] \in Range(acc) THEN acc ELSE Append(acc, s[1]))

RECURSIVE StableDescending(_, _)
\* stable sort by total_volume, largest first: each row goes behind every row
\* already placed whose total_volume is not smaller
StableDescending(s, acc) ==
    IF s = <<>> THEN acc
    ELSE LET n == Cardinality({i \in DOMAIN acc : acc[i].total_volume >= s[1].total_volume})
         IN  StableDescending(Tail(s),
                 SubSeq(acc, 1, n) \o <<s[1]>> \o SubSeq(acc, n + 1, Len(acc)))

\* the report the claim describes: bronze users in first-encounter order,
\* totals summed, stable descending by total_volume, first three
ExpectedTop(a) ==
    LET b  == Bronze(a.rows)
        us == FirstSeen(SelectSeq([i \in DOMAIN b |-> b[i].user_id], LAMBDA u : u # NULL), <<>>)
        t  == [j \in DOMAIN us |->
                 LET g == SelectSeq(b, LAMBDA r : r.user_id = us[j])
                 IN  [user_id      |-> us[j],
                      total_volume |-> SumSeq(TotalVolumes(g)),
                      total_pnl    |-> SumSeq(TotalPnls(g))]]
    IN  FirstN(StableDescending(t, <<>>), TopN)

\* C3: the report holds one row per bronze user, descending by total_volume,
\* equal volumes in the order the users were first met in the aggregate, cut
\* to three rows.
C3_TopIsStableDescending ==
    top_csv # << >> => top_csv[1] = ExpectedTop(agg)

\* the rows no row-level rule of the claim flags
FlaggedLabels ==
    UNION {Range(report[c]) : c \in DOMAIN report \cap {"invalid_timestamp_format",
               "invalid_quantity", "invalid_price", "invalid_side", "invalid_client_type"}}

CleanRows == Take(raw, Where([i \in DOMAIN raw |-> IndexLabel(i) \notin FlaggedLabels]))

\* C4: on a batch with all columns and no blank timestamp transform does not
\* fail, and the aggregate is the one of the rows that validate_formats does
\* not flag: a flagged row adds to no total, count, mean or pnl.
C4_FlaggedRowsExcluded ==
    (cols = ReqSet /\ BlankLabels = {} /\ TransformDone) =>
        /\ TransformReturned
        /\ agg = Transform(cols, CleanRows, include_pnl, null_ts_mode).agg

\* C5: under policy "error" a batch with a blank timestamp fails in
\* handle_null_timestamps before anything is written, and the error lists the
\* first (at most five) labels of the blank rows in row order; a batch without
\* one is returned unchanged.
C5_NullPolicyError ==
    (null_ts_mode = "error" /\ FileColumns = ReqSet) =>
        IF BlankLabels # {}
        THEN /\ pc \in {"extract", "transform", "failed"}
             /\ NoOutput
             /\ agg = NoFrame
             /\ pc = "failed" =>
                   /\ error.at = "transform"
                   /\ error.what = "null_timestamps"
                   /\ Len(error.rows) = IF Cardinality(BlankLabels) < 5
                                        THEN Cardinality(BlankLabels) ELSE 5
                   /\ \A k \in DOMAIN error.rows :
                         /\ error.rows[k] \in BlankLabels
                         /\ Cardinality({b \in BlankLabels : b < error.rows[k]}) = k - 1
        ELSE /\ TransformDone => TransformReturned
             /\ HandleNullTimestamps(FileColumns, Indexed(raw), null_ts_mode).ok
             /\ HandleNullTimestamps(FileColumns, Indexed(raw), null_ts_mode).df = Indexed(raw)

\* the error message is capped: more blank rows than it lists
C5_Witness ==
    /\ null_ts_mode = "error" /\ pc = "failed"
    /\ error.what = "null_timestamps"
    /\ Len(error.rows) = 5 /\ Cardinality(BlankLabels) > 5
    /\ \E i \in DOMAIN raw : ~BlankTimestamp(raw[i]) /\ IndexLabel(i) < error.rows[5]

\* C6: every policy other than "error" and "drop" makes the normalizer fail
\* with an unknown-policy error that names it, whatever the batch.
C6_UnknownModeAlwaysFails ==
    (null_ts_mode \notin {"error", "drop"} /\ TransformDone) =>
        /\ FailedInTransform
        /\ error.what = "unknown_mode"
        /\ error.name = null_ts_mode
        /\ agg = NoFrame

\* C7: after transform has succeeded, with or without total_pnl, the report
\* step raises no error, so the run is never stopped there.
C7_ExportNeverRaises ==
    ~(pc = "failed" /\ error.at = "export_top_bronze_exact")

\* the outputs of a run on a file that lacks a required column
NothingProduced == pc \in {"extract", "transform", "failed"} /\ NoOutput /\ agg = NoFrame

\* validate_formats on the frame of such a file: only missing_columns, with
\* exactly the missing names
OnlyMissingColumns ==
    LET r == ValidateFormats(FileColumns, Indexed(raw))
    IN  /\ DOMAIN r = {"missing_columns"}
        /\ Range(r["missing_columns"]) = ReqSet \ FileColumns
        /\ Len(r["missing_columns"]) = Cardinality(ReqSet \ FileColumns)

KeptLabels == {df[k].index : k \in DOMAIN df}

\* a reason the claim gives for removing the row at position i
RemovalReason(i) ==
    \/ BlankTimestamp(raw[i])
    \/ ToDatetime(raw[i].timestamp) = NaN
    \/ ToNumeric(raw[i].quantity) = NaN
    \/ ToNumeric(raw[i].price) = NaN
    \/ raw[i].client_type = NULL
    \/ StrStrip(StrLower(raw[i].client_type)) \notin AllowedClient

ReportedLabels == UNION {Range(report[c]) : c \in DOMAIN report}

\* C10: under "drop" (or "error" without blank timestamps) transform removes
\* exactly the rows with a removal reason, each of them is in the validation
\* report, and the rows kept are counted once: trade_count sums to their
\* number and total_volume to the sum of their quantities.
C10_NoCleanRowLost ==
    (cols = ReqSet /\ null_ts_mode \in {"error", "drop"} /\ TransformReturned) =>
        /\ \A i \in DOMAIN raw :
              /\ IndexLabel(i) \notin KeptLabels <=> RemovalReason(i)
              /\ IndexLabel(i) \notin KeptLabels => IndexLabel(i) \in ReportedLabels
        /\ SumSeq([j \in DOMAIN agg.rows |-> agg.rows[j].trade_count])
              = Cardinality({i \in DOMAIN raw : ~RemovalReason(i)})
        /\ SumSeq(TotalVolumes(agg.rows))
              = SumSeq([i \in DOMAIN raw |->
                           IF RemovalReason(i) THEN 0 ELSE ToNumeric(raw[i].quantity)[1]])

\* a row was removed and a row without a user_id was kept
C10_Witness ==
    /\ pc = "load" /\ null_ts_mode = "drop"
    /\ \E i \in DOMAIN raw : BlankTimestamp(raw[i])
    /\ \E k \in DOMAIN df : df[k].user_id = NULL
    /\ Len(df) < Len(raw)

====
